---- MODULE Spec2Model ----
(***************************************************************************)
(* Model of the sales dashboard scripts src/main.py (category/store        *)
(* variant) and src/main_bakcup.py (brand variant): the cached filter      *)
(* functions, the group-by aggregations, the top-N helpers, and the        *)
(* script body that Streamlit re-runs on every interaction.                *)
(*                                                                         *)
(* Conventions                                                             *)
(*   - Python None is the empty tuple, a present value x is <<x>>.         *)
(*   - A timestamp is [tz, t]: t is the wall-clock reading, tz its zone    *)
(*     ("naive" for a zone-less value).  A DataFrame is [tz, rows]: the    *)
(*     orderDate column has one dtype, rows[i].orderDate is its reading.   *)
(*   - Money and quantities are integers (exact arithmetic); a quotient    *)
(*     is kept as numerator/denominator, or as the IEEE marker pandas      *)
(*     produces for a zero denominator.                                    *)
(*   - The order of the rows of a group-by result is not modelled: a       *)
(*     result is a function from group key to aggregate row.               *)
(***************************************************************************)
EXTENDS Integers, Sequences, FiniteSets, TLC

VARIABLES app, uploaded_file, session_state, filter_cache, date_cache, runs, out

vars == <<app, uploaded_file, session_state, filter_cache, date_cache, runs, out>>

(***************************************************************************)
(* Bounds of the model.                                                    *)
(***************************************************************************)
MaxRows == 3
MaxDate == 2
MaxRuns == 2

(***************************************************************************)
(* Generic helpers.                                                        *)
(***************************************************************************)
None == <<>>
Some(x) == <<x>>
Val(o) == o[1]

Range(s) == {s[i] : i \in DOMAIN s}
Min(a, b) == IF a <= b THEN a ELSE b
SeqsBetween(S, lo, hi) == UNION {[1..k -> S] : k \in lo..hi}
Perms(S) == {o \in [1..Cardinality(S) -> S] : \A i, j \in DOMAIN o : o[i] = o[j] => i = j}

RECURSIVE SumSeq(_)
SumSeq(s) == IF s = <<>> THEN 0 ELSE Head(s) + SumSeq(Tail(s))

(***************************************************************************)
(* pandas primitives used by the scripts.                                  *)
(***************************************************************************)
Zones == {"naive", "UTC", "UTC+1"}
Offset(tz) == IF tz = "UTC+1" THEN 1 ELSE 0

\* pd.to_datetime(x, utc=True) on a scalar: a naive value is taken as UTC,
\* an aware one is converted to UTC.
to_datetime_utc(ts) == [tz |-> "UTC", t |-> ts.t - Offset(ts.tz)]

\* _data['orderDate'] = pd.to_datetime(_data['orderDate'], utc=True)
to_datetime_column(data) ==
    [tz |-> "UTC",
     rows |-> [i \in DOMAIN data.rows |->
                 [data.rows[i] EXCEPT !.orderDate = @ - Offset(data.tz)]]]

Field(r, dim) ==
    CASE dim = "categoryName" -> r.categoryName
      [] dim = "storeName" -> r.storeName
      [] dim = "brandName" -> r.brandName

Column(data, dim) == [i \in DOMAIN data.rows |-> Field(data.rows[i], dim)]

\* Series.unique(): the distinct values in order of first appearance.
RECURSIVE unique(_)
unique(col) ==
    IF col = <<>> THEN <<>>
    ELSE LET u == unique(SubSeq(col, 1, Len(col) - 1))
             x == col[Len(col)]
         IN IF x \in Range(u) THEN u ELSE Append(u, x)

Count(col, v) == Cardinality({i \in DOMAIN col : col[i] = v})

\* Series.value_counts(): the distinct values by decreasing count.  The sort
\* is sort_values' default quicksort, which is not stable: every order of
\* the values that is non-increasing in count is a possible outcome.
value_counts_unsorted(col) == Perms(Range(col))
value_counts(col) ==
    {o \in Perms(Range(col)) :
        \A i \in 1..(Len(o) - 1) : Count(col, o[i]) >= Count(col, o[i + 1])}

\* Series.head(n), n >= 0.
head(s, n) == SubSeq(s, 1, Min(n, Len(s)))

(***************************************************************************)
(* The top-N helpers: the set of lists a call may return.                  *)
(***************************************************************************)
get_top_categories(data, n) ==
    {head(o, n) : o \in value_counts(Column(data, "categoryName"))}

get_top_stores(data, n) ==
    {head(o, n) : o \in value_counts(Column(data, "storeName"))}

get_top_brands(data, n) ==
    {head(o, n) : o \in value_counts(Column(data, "brandName"))}

(***************************************************************************)
(* The filter functions' bodies.  A body returns                           *)
(*   raised : whether the comparison against a None bound raised TypeError *)
(*   data   : the caller's DataFrame as the body leaves it (the orderDate  *)
(*            column is assigned in place before the mask is computed)     *)
(*   value  : the returned value, None when raised.                        *)
(***************************************************************************)
InRange(r, sd, ed) == r.orderDate >= sd.t /\ r.orderDate <= ed.t

MaskMain(r, categories, stores, sd, ed) ==
    /\ InRange(r, sd, ed)
    /\ r.categoryName \in Range(categories)
    /\ r.storeName \in Range(stores)

MaskBrand(r, brands, sd, ed) ==
    /\ InRange(r, sd, ed)
    /\ r.brandName \in Range(brands)

Bound(d) == IF d # None THEN Some(to_datetime_utc(Val(d))) ELSE None

filter_data(data, categories, stores, start_date, end_date) ==
    LET sd == Bound(start_date)
        ed == Bound(end_date)
        d2 == to_datetime_column(data)
        Keep(r) == MaskMain(r, categories, stores, Val(sd), Val(ed))
    IN IF sd = None \/ ed = None
       THEN [raised |-> TRUE, data |-> d2, value |-> None]
       ELSE [raised |-> FALSE, data |-> d2,
             value |-> Some([tz |-> "UTC", rows |-> SelectSeq(d2.rows, Keep)])]

filter_data_brand(data, brands, start_date, end_date) ==
    LET sd == Bound(start_date)
        ed == Bound(end_date)
        d2 == to_datetime_column(data)
        Keep(r) == MaskBrand(r, brands, Val(sd), Val(ed))
    IN IF sd = None \/ ed = None
       THEN [raised |-> TRUE, data |-> d2, value |-> None]
       ELSE [raised |-> FALSE, data |-> d2,
             value |-> Some([tz |-> "UTC", rows |-> SelectSeq(d2.rows, Keep)])]

(***************************************************************************)
(* Group-by aggregation.                                                   *)
(***************************************************************************)
Group(rows, dim, k) ==
    LET In(r) == Field(r, dim) = k IN SelectSeq(rows, In)

GroupFirstRow(rows, dim, k) == SubSeq(Group(rows, dim, k), 1, 1)

GroupRows(rows, dim, k) == Group(rows, dim, k)

groupby_agg(rows, dim) ==
    [k \in {Field(rows[i], dim) : i \in DOMAIN rows} |->
        LET g == GroupRows(rows, dim, k)
        IN [total_sales |-> SumSeq([i \in DOMAIN g |-> g[i].sellingPrice * g[i].quantity]),
            total_cost |-> SumSeq([i \in DOMAIN g |-> g[i].costPrice * g[i].quantity]),
            total_quantity |-> SumSeq([i \in DOMAIN g |-> g[i].quantity])]]

\* Float division of two columns, times 100: pandas yields NaN for 0/0 and
\* a signed infinity for x/0, and raises nothing.
Percent(num, den) ==
    IF den # 0 THEN [kind |-> "finite", num |-> 100 * num, den |-> den]
    ELSE IF num = 0 THEN [kind |-> "NaN", num |-> 0, den |-> 0]
    ELSE IF num > 0 THEN [kind |-> "inf", num |-> 0, den |-> 0]
    ELSE [kind |-> "-inf", num |-> 0, den |-> 0]

\* The table filter_data_by_date builds from the date-filtered rows.
category_aggregated(rows) ==
    LET a == groupby_agg(rows, "categoryName")
    IN [k \in DOMAIN a |->
          [total_sales |-> a[k].total_sales,
           total_cost |-> a[k].total_cost,
           total_quantity |-> a[k].total_quantity,
           profit |-> a[k].total_sales - a[k].total_cost,
           profit_margin |-> Percent(a[k].total_sales - a[k].total_cost, a[k].total_sales)]]

filter_data_by_date(data, start_date, end_date) ==
    LET sd == Bound(start_date)
        ed == Bound(end_date)
        d2 == to_datetime_column(data)
        Keep(r) == InRange(r, Val(sd), Val(ed))
    IN IF sd = None \/ ed = None
       THEN [raised |-> TRUE, data |-> d2, value |-> None]
       ELSE LET kept == SelectSeq(d2.rows, Keep)
            IN [raised |-> FALSE, data |-> d2,
                value |-> Some([date_filtered_data |-> [tz |-> "UTC", rows |-> kept],
                                category_aggregated |-> category_aggregated(kept)])]

\* overall_analysis of src/main.py: the same group-by, another margin formula.
overall_analysis(rows) ==
    LET a == groupby_agg(rows, "categoryName")
    IN [k \in DOMAIN a |->
          [total_sales |-> a[k].total_sales,
           total_cost |-> a[k].total_cost,
           total_quantity |-> a[k].total_quantity,
           profit |-> a[k].total_sales - a[k].total_cost,
           profit_margin |-> Percent(a[k].total_sales - a[k].total_cost,
                                     a[k].total_sales + a[k].total_cost)]]

\* overall_analysis of src/main_bakcup.py: by brand, no margin column.
overall_analysis_brand(rows) ==
    LET a == groupby_agg(rows, "brandName")
    IN [k \in DOMAIN a |->
          [total_sales |-> a[k].total_sales,
           total_cost |-> a[k].total_cost,
           total_quantity |-> a[k].total_quantity,
           profit |-> a[k].total_sales - a[k].total_cost]]

(***************************************************************************)
(* st.cache_data.  The decorator keys an entry by the call's arguments,    *)
(* leaving out every parameter whose name starts with an underscore: the   *)
(* DataFrame parameter of the decorated filter functions is _data, so an   *)
(* entry is keyed by the criteria alone.  On a hit the stored value is     *)
(* returned and the body does not run; a call that raises stores nothing.  *)
(***************************************************************************)
CacheHit(cache, key) == \E e \in cache : e.key = key
CacheGet(cache, key) == (CHOOSE e \in cache : e.key = key).value

CachedCall(cache, key, data, body) ==
    IF CacheHit(cache, key)
    THEN [hit |-> TRUE, raised |-> FALSE, data |-> data,
          value |-> Some(CacheGet(cache, key)), cache |-> cache]
    ELSE [hit |-> FALSE, raised |-> body.raised, data |-> body.data,
          value |-> body.value,
          cache |-> IF body.raised THEN cache
                    ELSE cache \cup {[key |-> key, value |-> Val(body.value)]}]

cached_filter_data(cache, data, categories, stores, start_date, end_date) ==
    CachedCall(cache, <<categories, stores, start_date, end_date>>, data,
               filter_data(data, categories, stores, start_date, end_date))

cached_filter_data_brand(cache, data, brands, start_date, end_date) ==
    CachedCall(cache, <<brands, start_date, end_date>>, data,
               filter_data_brand(data, brands.items, start_date, end_date))

cached_filter_data_by_date(cache, data, start_date, end_date) ==
    CachedCall(cache, <<start_date, end_date>>, data,
               filter_data_by_date(data, start_date, end_date))

(***************************************************************************)
(* Loading.  utils.data_loader.load_data is not part of the sources at     *)
(* hand: a file is [name, content] and loading yields the table the        *)
(* content holds.  load_optimized_data caches it by the file's name and    *)
(* bytes and hands out a fresh copy on every call.                         *)
(***************************************************************************)
load_data(file) == file.content

load_optimized_data(file) == load_data(file)

(***************************************************************************)
(* Session state and the upload branch of the sidebar.                     *)
(***************************************************************************)
InitialSession == [data |-> None, last_upload |-> None]

SessionAfterUpload(file, st) ==
    IF st.last_upload # Some(file.name)
    THEN [data |-> Some(load_optimized_data(file)), last_upload |-> Some(file.name)]
    ELSE st

Reloaded(file, st) == st.last_upload # Some(file.name)

\* pd.to_datetime(st.date_input(...)): a zone-less timestamp.
DateInput(t) == Some([tz |-> "naive", t |-> t])

\* What st.multiselect can return: the options picked, in the order picked.
Selections(options) ==
    {s \in SeqsBetween(Range(options), 0, Len(options)) :
        \A i, j \in DOMAIN s : s[i] = s[j] => i = j}

RenderersMain ==
    << [fn |-> "category_performance_analysis", on |-> "filtered_data"],
       [fn |-> "weekly_sales_analysis", on |-> "filtered_data"],
       [fn |-> "daily_sales_analysis", on |-> "filtered_data"],
       [fn |-> "store_performance_analysis", on |-> "data, date_filtered_data"],
       [fn |-> "hourly_sales_analysis", on |-> "filtered_data"],
       [fn |-> "profit_margin_analysis", on |-> "filtered_data"],
       [fn |-> "top_products_analysis", on |-> "filtered_data"] >>

RenderersBrand ==
    << [fn |-> "brand_performance_analysis", on |-> "data"],
       [fn |-> "weekly_sales_analysis", on |-> "filtered_data"],
       [fn |-> "store_performance_analysis", on |-> "filtered_data"],
       [fn |-> "hourly_sales_analysis", on |-> "filtered_data"],
       [fn |-> "category_breakdown_analysis", on |-> "filtered_data"],
       [fn |-> "profit_margin_analysis", on |-> "filtered_data"],
       [fn |-> "top_products_analysis", on |-> "filtered_data"],
       [fn |-> "brand_comparison_analysis", on |-> "filtered_data"] >>

(***************************************************************************)
(* The default substitution of the two scripts.                            *)
(***************************************************************************)
SelectAllCategories(sidebar, top_categories, unique_categories) ==
    IF sidebar # <<>> THEN sidebar ELSE unique_categories

selected_categories(sidebar, top_categories, unique_categories) ==
    IF sidebar # <<>> THEN sidebar ELSE top_categories

selected_stores(sidebar, top_stores) ==
    IF sidebar # <<>> THEN sidebar ELSE top_stores

selected_brands(sidebar, unique_brands) ==
    IF sidebar # <<>> THEN [type |-> "list", items |-> sidebar]
    ELSE [type |-> "ndarray", items |-> unique_brands]

(***************************************************************************)
(* One run of src/main.py with a file in the uploader.  in holds what the  *)
(* widgets and the top-N helpers returned in this run.                     *)
(***************************************************************************)
ScriptMain(file, st, fc, dc, in) ==
    LET st1 == SessionAfterUpload(file, st)
        data == Val(st1.data)
        selc == selected_categories(in.selected_categories_sidebar, in.top_categories,
                                    unique(Column(data, "categoryName")))
        sels == selected_stores(in.selected_stores_sidebar, in.top_stores)
        f == cached_filter_data(fc, data, selc, sels, in.start_date, in.end_date)
        d == cached_filter_data_by_date(dc, f.data, in.start_date, in.end_date)
        common == [op |-> "run", app |-> "main", reloaded |-> Reloaded(file, st),
                   data |-> data, in |-> in,
                   selected_categories |-> selc, selected_stores |-> sels]
    IN IF f.raised \/ d.raised
       THEN [session_state |-> [st1 EXCEPT !.data = Some(f.data)],
             filter_cache |-> f.cache, date_cache |-> dc,
             out |-> [common EXCEPT !.op = "run_failed"]]
       ELSE LET filtered_data == Val(f.value)
                nonempty == Len(filtered_data.rows) > 0
            IN [session_state |-> [st1 EXCEPT !.data = Some(d.data)],
                filter_cache |-> f.cache, date_cache |-> d.cache,
                out |-> [op |-> "run", app |-> "main", reloaded |-> Reloaded(file, st),
                         data |-> data, in |-> in,
                         selected_categories |-> selc, selected_stores |-> sels,
                         filter_hit |-> f.hit, date_hit |-> d.hit,
                         filtered_data |-> filtered_data,
                         date_filtered_data |-> Val(d.value).date_filtered_data,
                         category_aggregated |-> Val(d.value).category_aggregated,
                         overall_analysis |->
                             IF nonempty THEN Some(overall_analysis(filtered_data.rows))
                             ELSE None,
                         renderers |-> IF nonempty THEN RenderersMain ELSE <<>>,
                         message |-> IF nonempty THEN None
                                     ELSE Some([level |-> "warning",
                                                text |-> "No data found for the selected criteria."])]]

InputsMain(data) ==
    LET cats == Column(data, "categoryName")
        stores == Column(data, "storeName")
    IN UNION {
         UNION {
           { [start_date |-> DateInput(s), end_date |-> DateInput(e),
              n_categories |-> n, top_categories |-> tc, top_stores |-> ts,
              selected_categories_sidebar |-> sc, selected_stores_sidebar |-> ss] :
               s \in 1..MaxDate, e \in 1..MaxDate,
               sc \in Selections(tc), ss \in Selections(ts) } :
           tc \in get_top_categories(data, n),
           ts \in get_top_stores(data, Len(unique(stores))) } :
         n \in 1..Len(unique(cats)) }

(***************************************************************************)
(* One run of src/main_bakcup.py with a file in the uploader.              *)
(***************************************************************************)
ScriptBrand(file, st, fc, in) ==
    LET st1 == SessionAfterUpload(file, st)
        data == Val(st1.data)
        selb == selected_brands(in.selected_brands_sidebar,
                                unique(Column(data, "brandName")))
        f == cached_filter_data_brand(fc, data, selb, in.start_date, in.end_date)
        common == [op |-> "run", app |-> "brand", reloaded |-> Reloaded(file, st),
                   data |-> data, in |-> in, selected_brands |-> selb]
    IN IF in.top_brands = <<>>
       THEN [session_state |-> st1, filter_cache |-> fc,
             out |-> [op |-> "no_file", app |-> "brand",
                      message |-> Some([level |-> "warning",
                                        text |-> "Please upload a CSV file to begin analysis."])]]
       ELSE IF f.raised
       THEN [session_state |-> [st1 EXCEPT !.data = Some(f.data)],
             filter_cache |-> f.cache,
             out |-> [common EXCEPT !.op = "run_failed"]]
       ELSE LET filtered_data == Val(f.value)
                nonempty == Len(filtered_data.rows) > 0
            IN [session_state |-> [st1 EXCEPT !.data = Some(f.data)],
                filter_cache |-> f.cache,
                out |-> [op |-> "run", app |-> "brand", reloaded |-> Reloaded(file, st),
                         data |-> data, in |-> in, selected_brands |-> selb,
                         filter_hit |-> f.hit,
                         filtered_data |-> filtered_data,
                         overall_analysis |->
                             IF nonempty THEN Some(overall_analysis_brand(filtered_data.rows))
                             ELSE None,
                         renderers |-> IF nonempty THEN RenderersBrand ELSE <<>>,
                         message |-> IF nonempty THEN None
                                     ELSE Some([level |-> "warning",
                                                text |-> "No data found for the selected criteria."])]]

InputsBrand(data) ==
    LET brands == Column(data, "brandName")
    IN UNION {
         UNION {
           { [start_date |-> DateInput(s), end_date |-> DateInput(e),
              n_brands |-> n, top_brands |-> tb, selected_brands_sidebar |-> sb] :
               s \in 1..MaxDate, e \in 1..MaxDate,
               sb \in Selections(unique(brands)) } :
           tb \in get_top_brands(data, n) } :
         n \in 1..Len(unique(brands)) }

(***************************************************************************)
(* Input universes.                                                        *)
(***************************************************************************)
Row(d, c, s, b, sp, cp, q) ==
    [orderDate |-> d, categoryName |-> c, storeName |-> s, brandName |-> b,
     sellingPrice |-> sp, costPrice |-> cp, quantity |-> q]

\* Rows for the filter functions and the script: they differ in date,
\* category, store, brand and amounts.
SampleRows ==
    { Row(1, "A", "S1", "X", 10, 6, 2),
      Row(2, "A", "S2", "Y", 10, 6, 1),
      Row(3, "B", "S1", "X", 5, 5, 4),
      Row(2, "B", "S2", "Y", 0, 5, 1) }

SampleData ==
    {[tz |-> z, rows |-> r] : z \in Zones, r \in SeqsBetween(SampleRows, 1, MaxRows)}

\* Rows for the aggregations: every key with every price point and quantity.
AggRows ==
    { Row(1, c, "S1", b, p[1], p[2], q) :
        c \in {"A", "B"}, b \in {"X", "Y"},
        p \in {<<10, 6>>, <<0, 5>>}, q \in {0, 1, 2} }

\* Columns for the top-N helpers.
Keys == {"A", "B", "C"}

KeyData(dim) ==
    {[tz |-> "UTC",
      rows |-> [i \in DOMAIN col |->
                  Row(1, IF dim = "categoryName" THEN col[i] ELSE "A",
                         IF dim = "storeName" THEN col[i] ELSE "A",
                         IF dim = "brandName" THEN col[i] ELSE "A", 10, 6, 1)]] :
        col \in SeqsBetween(Keys, 1, MaxRows)}

DateArgs == {None} \cup {DateInput(t) : t \in 1..MaxDate}

Lists(S) == UNION {Perms(T) : T \in SUBSET S}

\* The files a user may upload in a session.  Two of them carry the same name.
Files ==
    { [name |-> "jan.csv",
       content |-> [tz |-> "naive",
                    rows |-> << Row(1, "A", "S1", "X", 10, 6, 2),
                                Row(2, "B", "S1", "Y", 5, 5, 4) >>]],
      [name |-> "jan_fixed.csv",
       content |-> [tz |-> "naive",
                    rows |-> << Row(2, "A", "S1", "X", 10, 6, 2),
                                Row(2, "B", "S1", "Y", 5, 5, 4) >>]],
      [name |-> "jan.csv",
       content |-> [tz |-> "UTC+1",
                    rows |-> << Row(2, "A", "S1", "X", 10, 6, 1),
                                Row(3, "A", "S2", "X", 10, 6, 1),
                                Row(3, "B", "S2", "Y", 0, 5, 1) >>]] }

Apps == {"main", "brand"}

(***************************************************************************)
(* The session: Streamlit re-runs the whole script on every interaction.   *)
(***************************************************************************)
Init ==
    /\ app \in Apps
    /\ uploaded_file = None
    /\ session_state = InitialSession
    /\ filter_cache = {}
    /\ date_cache = {}
    /\ runs = 0
    /\ out = [op |-> "init"]

\* A run with no file in the uploader (none yet, or the file was removed).
RunNoFile ==
    /\ runs < MaxRuns
    /\ uploaded_file' = None
    /\ out' = [op |-> "no_file", app |-> app,
               message |-> Some([level |-> "warning",
                                 text |-> "Please upload a CSV file to begin analysis."])]
    /\ runs' = runs + 1
    /\ UNCHANGED <<app, session_state, filter_cache, date_cache>>

\* A run of src/main.py with a file in the uploader (kept, or just uploaded).
RunMain ==
    /\ app = "main"
    /\ runs < MaxRuns
    /\ \E file \in Files :
         \E in \in InputsMain(Val(SessionAfterUpload(file, session_state).data)) :
            LET r == ScriptMain(file, session_state, filter_cache, date_cache, in)
            IN /\ uploaded_file' = Some(file)
               /\ session_state' = r.session_state
               /\ filter_cache' = r.filter_cache
               /\ date_cache' = r.date_cache
               /\ out' = r.out
    /\ runs' = runs + 1
    /\ UNCHANGED app

\* A run of src/main_bakcup.py with a file in the uploader.
RunBrand ==
    /\ app = "brand"
    /\ runs < MaxRuns
    /\ \E file \in Files :
         \E in \in InputsBrand(Val(SessionAfterUpload(file, session_state).data)) :
            LET r == ScriptBrand(file, session_state, filter_cache, in)
            IN /\ uploaded_file' = Some(file)
               /\ session_state' = r.session_state
               /\ filter_cache' = r.filter_cache
               /\ out' = r.out
    /\ runs' = runs + 1
    /\ UNCHANGED <<app, date_cache>>

Next == RunNoFile \/ RunMain \/ RunBrand

Spec == Init /\ [][Next]_vars

(***************************************************************************)
(* A fresh process: every cache is empty, so a call of a decorated         *)
(* function runs its body, and a run of the script is the first one.       *)
(* Each action applies one function, or the whole script, to inputs drawn  *)
(* from the universes above and records the call in out.                   *)
(***************************************************************************)
Fresh == UNCHANGED <<app, uploaded_file, session_state, filter_cache, date_cache, runs>>

CallGetTopCategories ==
    /\ app = "main" /\ out.op = "init"
    /\ \E data \in KeyData("categoryName"), n \in 1..(MaxRows + 1) :
         \E res \in get_top_categories(data, n) :
            out' = [op |-> "get_top", fn |-> "get_top_categories", col |-> Column(data, "categoryName"),
                    n |-> n, result |-> res]
    /\ Fresh

CallGetTopStores ==
    /\ app = "main" /\ out.op = "init"
    /\ \E data \in KeyData("storeName"), n \in 1..(MaxRows + 1) :
         \E res \in get_top_stores(data, n) :
            out' = [op |-> "get_top", fn |-> "get_top_stores", col |-> Column(data, "storeName"),
                    n |-> n, result |-> res]
    /\ Fresh

CallGetTopBrands ==
    /\ app = "brand" /\ out.op = "init"
    /\ \E data \in KeyData("brandName"), n \in 1..(MaxRows + 1) :
         \E res \in get_top_brands(data, n) :
            out' = [op |-> "get_top", fn |-> "get_top_brands", col |-> Column(data, "brandName"),
                    n |-> n, result |-> res]
    /\ Fresh

CallFilterData ==
    /\ app = "main" /\ out.op = "init"
    /\ \E data \in SampleData, categories \in Lists({"A", "B"}), stores \in Lists({"S1", "S2"}),
          start_date \in DateArgs, end_date \in DateArgs :
         LET r == filter_data(data, categories, stores, start_date, end_date)
         IN out' = [op |-> "filter_data", data |-> data, categories |-> categories,
                    stores |-> stores, start_date |-> start_date, end_date |-> end_date,
                    raised |-> r.raised, data_after |-> r.data, value |-> r.value]
    /\ Fresh

CallFilterDataBrand ==
    /\ app = "brand" /\ out.op = "init"
    /\ \E data \in SampleData, brands \in Lists({"X", "Y"}),
          start_date \in DateArgs, end_date \in DateArgs :
         LET r == filter_data_brand(data, brands, start_date, end_date)
         IN out' = [op |-> "filter_data_brand", data |-> data, brands |-> brands,
                    start_date |-> start_date, end_date |-> end_date,
                    raised |-> r.raised, data_after |-> r.data, value |-> r.value]
    /\ Fresh

CallFilterDataByDate ==
    /\ app = "main" /\ out.op = "init"
    /\ \E data \in SampleData, start_date \in DateArgs, end_date \in DateArgs :
         LET r == filter_data_by_date(data, start_date, end_date)
         IN out' = [op |-> "filter_data_by_date", data |-> data,
                    start_date |-> start_date, end_date |-> end_date,
                    raised |-> r.raised, data_after |-> r.data, value |-> r.value]
    /\ Fresh

\* The three group-by aggregations of the scripts on the same rows.
CallAggregate ==
    /\ app = "main" /\ out.op = "init"
    /\ \E rows \in SeqsBetween(AggRows, 0, MaxRows) :
         out' = [op |-> "aggregate", rows |-> rows,
                 category_aggregated |-> category_aggregated(rows),
                 overall_analysis |-> overall_analysis(rows),
                 overall_analysis_brand |-> overall_analysis_brand(rows)]
    /\ Fresh

\* The first run of src/main.py in a fresh process.
FirstRunMain ==
    /\ app = "main" /\ out.op = "init"
    /\ \E data \in SampleData :
         LET file == [name |-> "upload.csv", content |-> data]
         IN \E in \in InputsMain(data) :
              out' = ScriptMain(file, InitialSession, {}, {}, in).out
    /\ Fresh

\* The first run of src/main_bakcup.py in a fresh process.
FirstRunBrand ==
    /\ app = "brand" /\ out.op = "init"
    /\ \E data \in SampleData :
         LET file == [name |-> "upload.csv", content |-> data]
         IN \E in \in InputsBrand(data) :
              out' = ScriptBrand(file, InitialSession, {}, in).out
    /\ Fresh

NextFn ==
    \/ CallGetTopCategories \/ CallGetTopStores \/ CallGetTopBrands
    \/ CallFilterData \/ CallFilterDataBrand \/ CallFilterDataByDate
    \/ CallAggregate \/ FirstRunMain \/ FirstRunBrand

SpecFn == Init /\ [][NextFn]_vars

(***************************************************************************)
(* Properties.                                                             *)
(***************************************************************************)
IsRun == out.op = "run"
IsCall(f) == out.op = f

RECURSIVE SumFn(_)
SumFn(f) ==
    IF DOMAIN f = {} THEN 0
    ELSE LET k == CHOOSE x \in DOMAIN f : TRUE
         IN f[k] + SumFn([j \in (DOMAIN f) \ {k} |-> f[j]])

\* The rows of data, read in UTC, that satisfy the criteria, in data's order.
MatchesMain(data, categories, stores, start_date, end_date) ==
    LET rows == to_datetime_column(data).rows
        Keep(r) == /\ r.orderDate >= to_datetime_utc(Val(start_date)).t
                   /\ r.orderDate <= to_datetime_utc(Val(end_date)).t
                   /\ \E i \in DOMAIN categories : categories[i] = r.categoryName
                   /\ \E i \in DOMAIN stores : stores[i] = r.storeName
    IN SelectSeq(rows, Keep)

MatchesBrand(data, brands, start_date, end_date) ==
    LET rows == to_datetime_column(data).rows
        Keep(r) == /\ r.orderDate >= to_datetime_utc(Val(start_date)).t
                   /\ r.orderDate <= to_datetime_utc(Val(end_date)).t
                   /\ \E i \in DOMAIN brands : brands[i] = r.brandName
    IN SelectSeq(rows, Keep)

MatchesDate(data, start_date, end_date) ==
    LET rows == to_datetime_column(data).rows
        Keep(r) == /\ r.orderDate >= to_datetime_utc(Val(start_date)).t
                   /\ r.orderDate <= to_datetime_utc(Val(end_date)).t
    IN SelectSeq(rows, Keep)

\* The rows the criteria of the last run match in the dataset it ran on.
RunMatches ==
    IF out.app = "main"
    THEN MatchesMain(out.data, out.selected_categories, out.selected_stores,
                     out.in.start_date, out.in.end_date)
    ELSE MatchesBrand(out.data, out.selected_brands.items,
                      out.in.start_date, out.in.end_date)

\* C1: in every run, the table filter_data returns holds exactly the rows of
\* the dataset passed to it that lie in [start_date, end_date] and whose
\* category and store (or brand) are in the allowed lists, in dataset order.
C1_FilterReturnsMatches ==
    IsRun => out.filtered_data.rows = RunMatches

\* C2: a call of filter_data or filter_data_by_date with a missing bound or
\* with start_date after end_date ends in an InvalidRange outcome and
\* produces no filtered or aggregate table.
InvalidRange(start_date, end_date) ==
    \/ start_date = None
    \/ end_date = None
    \/ Val(start_date).t > Val(end_date).t

Outcome(o) == IF o.raised THEN "TypeError" ELSE "returned"

C2_InvalidRangeRejected ==
    (IsCall("filter_data") \/ IsCall("filter_data_by_date"))
        /\ InvalidRange(out.start_date, out.end_date)
    => Outcome(out) = "InvalidRange" /\ out.value = None

\* C3 (as claimed): with nothing selected in the sidebar, the table
\* filter_data returns equals the date-only filtered table.
NothingSelected ==
    /\ IsRun
    /\ IF out.app = "main"
       THEN out.in.selected_categories_sidebar = <<>> /\ out.in.selected_stores_sidebar = <<>>
       ELSE out.in.selected_brands_sidebar = <<>>

C3_EmptySelectionIsNoConstraint ==
    NothingSelected =>
        out.filtered_data.rows = MatchesDate(out.data, out.in.start_date, out.in.end_date)

\* C3 (amended): with nothing selected, src/main.py passes the top-N
\* categories and every store, so the criteria match the rows in the date
\* range whose category is among the top N, and every row in the date range
\* only when N is the number of distinct categories; src/main_bakcup.py
\* passes every brand, so its criteria match every row in the date range.
InTop(r) == \E i \in DOMAIN out.in.top_categories : out.in.top_categories[i] = r.categoryName

C3_EmptySelectionDefaults ==
    NothingSelected =>
        LET dated == MatchesDate(out.data, out.in.start_date, out.in.end_date)
        IN IF out.app = "main"
           THEN /\ out.selected_categories = out.in.top_categories
                /\ Len(out.selected_categories) = out.in.n_categories
                /\ Range(out.selected_stores) = Range(Column(out.data, "storeName"))
                /\ RunMatches = SelectSeq(dated, InTop)
                /\ (out.in.n_categories = Cardinality(Range(Column(out.data, "categoryName")))
                      => RunMatches = dated)
           ELSE /\ out.selected_brands.items = unique(Column(out.data, "brandName"))
                /\ RunMatches = dated

C3_Witness ==
    /\ NothingSelected
    /\ out.app = "main"
    /\ out.in.n_categories < Cardinality(Range(Column(out.data, "categoryName")))
    /\ Len(out.filtered_data.rows) > 0
    /\ Len(out.filtered_data.rows) < Len(out.date_filtered_data.rows)

\* C4: the group totals of every group-by of the scripts add up to the
\* totals over the rows aggregated, and every row is in exactly one group.
Conserves(table, rows, dim) ==
    /\ SumFn([k \in DOMAIN table |-> table[k].total_sales])
         = SumSeq([i \in DOMAIN rows |-> rows[i].sellingPrice * rows[i].quantity])
    /\ SumFn([k \in DOMAIN table |-> table[k].total_cost])
         = SumSeq([i \in DOMAIN rows |-> rows[i].costPrice * rows[i].quantity])
    /\ SumFn([k \in DOMAIN table |-> table[k].total_quantity])
         = SumSeq([i \in DOMAIN rows |-> rows[i].quantity])
    /\ \A i \in DOMAIN rows :
         Cardinality({k \in DOMAIN table : Field(rows[i], dim) = k}) = 1
    /\ \A k \in DOMAIN table : \E i \in DOMAIN rows : Field(rows[i], dim) = k

C4_TotalsConserved ==
    /\ IsCall("aggregate") =>
         /\ Conserves(out.category_aggregated, out.rows, "categoryName")
         /\ Conserves(out.overall_analysis, out.rows, "categoryName")
         /\ Conserves(out.overall_analysis_brand, out.rows, "brandName")
    /\ IsCall("filter_data_by_date") /\ ~out.raised =>
         Conserves(Val(out.value).category_aggregated,
                   Val(out.value).date_filtered_data.rows, "categoryName")
    /\ IsRun /\ out.overall_analysis # None =>
         Conserves(Val(out.overall_analysis), out.filtered_data.rows,
                   IF out.app = "main" THEN "categoryName" ELSE "brandName")

C4_Witness ==
    /\ IsCall("aggregate")
    /\ Cardinality(DOMAIN out.category_aggregated) = 2
    /\ Cardinality(DOMAIN out.overall_analysis_brand) = 2
    /\ \E k \in DOMAIN out.category_aggregated :
         /\ Len(Group(out.rows, "categoryName", k)) = 2
         /\ out.category_aggregated[k].total_sales = 30
         /\ out.category_aggregated[k].total_cost = 18
         /\ out.category_aggregated[k].total_quantity = 3

\* C5: every aggregate row has profit = total_sales - total_cost and
\* profit_margin = profit / total_sales * 100, and the three-row scenario
\* filtered to [1, 2] aggregates to the single row A = (30, 18, 3, 12, 40).
SameQuotient(p, q) ==
    /\ p.kind = q.kind
    /\ p.kind = "finite" => p.num * q.den = q.num * p.den

MarginOnSales(table) ==
    \A k \in DOMAIN table :
        /\ table[k].profit = table[k].total_sales - table[k].total_cost
        /\ SameQuotient(table[k].profit_margin, Percent(table[k].profit, table[k].total_sales))

Scenario ==
    << Row(1, "A", "S1", "X", 10, 6, 2),
       Row(2, "A", "S2", "Y", 10, 6, 1),
       Row(3, "B", "S1", "X", 5, 5, 4) >>

ScenarioHolds ==
    IsCall("filter_data_by_date") /\ out.data.rows = Scenario /\ out.data.tz # "UTC+1"
        /\ out.start_date = DateInput(1) /\ out.end_date = DateInput(2)
    => /\ ~out.raised
       /\ Val(out.value).date_filtered_data.rows = SubSeq(Scenario, 1, 2)
       /\ DOMAIN Val(out.value).category_aggregated = {"A"}
       /\ LET a == Val(out.value).category_aggregated["A"]
          IN /\ a.total_sales = 30 /\ a.total_cost = 18 /\ a.total_quantity = 3
             /\ a.profit = 12
             /\ a.profit_margin.kind = "finite"
             /\ a.profit_margin.num = 40 * a.profit_margin.den

C5_ProfitMargin ==
    /\ ScenarioHolds
    /\ IsCall("aggregate") =>
         MarginOnSales(out.category_aggregated) /\ MarginOnSales(out.overall_analysis)
    /\ IsCall("filter_data_by_date") /\ ~out.raised =>
         MarginOnSales(Val(out.value).category_aggregated)

\* A zero denominator is reported with the kind "undefined".
FlaggedOnSales(table) ==
    \A k \in DOMAIN table :
        table[k].total_sales = 0 => table[k].profit_margin.kind = "undefined"

FlaggedOnSalesPlusCost(table) ==
    \A k \in DOMAIN table :
        table[k].total_sales + table[k].total_cost = 0
            => table[k].profit_margin.kind = "undefined"

\* C6: a group whose margin denominator is zero has its profit_margin
\* reported as an explicit undefined marker, not as NaN or an infinity.
C6_UndefinedMarginFlagged ==
    IsCall("aggregate") =>
        /\ FlaggedOnSales(out.category_aggregated)
        /\ FlaggedOnSalesPlusCost(out.overall_analysis)

\* C7 (as claimed): a top-N helper returns the min(n, distinct) most frequent
\* values by decreasing count, ties in order of first appearance.
FirstIndex(col, v) == CHOOSE i \in DOMAIN col : col[i] = v /\ \A j \in 1..(i - 1) : col[j] # v

StableOrder(col) ==
    CHOOSE o \in value_counts(col) :
        \A i, j \in DOMAIN o :
            i < j /\ Count(col, o[i]) = Count(col, o[j])
                => FirstIndex(col, o[i]) < FirstIndex(col, o[j])

C7_TopNTiesByFirstAppearance ==
    IsCall("get_top") => out.result = head(StableOrder(out.col), out.n)

\* C7 (amended): a top-N helper returns min(n, distinct) distinct values of
\* the column in non-increasing count order, each at least as frequent as
\* every value left out; values of equal count come in no fixed order.
C7_TopNByCount ==
    IsCall("get_top") =>
        LET res == out.result
            distinct == Range(out.col)
        IN /\ Len(res) = Min(out.n, Cardinality(distinct))
           /\ Range(res) \subseteq distinct
           /\ \A i, j \in DOMAIN res : res[i] = res[j] => i = j
           /\ \A i \in 1..(Len(res) - 1) : Count(out.col, res[i]) >= Count(out.col, res[i + 1])
           /\ \A v \in Range(res), w \in distinct \ Range(res) :
                Count(out.col, v) >= Count(out.col, w)
           /\ (out.n >= Cardinality(distinct) => Range(res) = distinct)

C7_Witness ==
    /\ IsCall("get_top")
    /\ out.col = <<"B", "A", "A">>
    /\ out.n = 1
    /\ out.result = <<"A">>

\* C8: after the filter calls of a run, the session's dataset is the
\* dataset as it was before them with orderDate normalized to UTC.
C8_NormalizedByFilterCalls ==
    IsRun => session_state.data = Some(to_datetime_column(out.data))

\* C9: when the criteria match no row of the dataset, a message is shown and
\* neither the overall aggregation nor a renderer runs; when they match
\* rows, the overall aggregation of those rows and every renderer run.
C9_EmptyResultGate ==
    IsRun =>
        IF RunMatches = <<>>
        THEN out.message # None /\ out.overall_analysis = None /\ out.renderers = <<>>
        ELSE /\ out.message = None
             /\ out.overall_analysis =
                  Some(IF out.app = "main" THEN overall_analysis(RunMatches)
                       ELSE overall_analysis_brand(RunMatches))
             /\ out.renderers = (IF out.app = "main" THEN RenderersMain ELSE RenderersBrand)

\* C10: whenever a file is in the uploader, the dataset the run filters is
\* the one loaded from that file.
C10_DatasetIsCurrentUpload ==
    IsRun /\ uploaded_file # None =>
        to_datetime_column(out.data) = to_datetime_column(load_data(Val(uploaded_file)))

(***************************************************************************)
(* What holds of the bodies alone, on a first call in a fresh process      *)
(* (checked under SpecFn): the failures of C1, C8 and C9 in a session come *)
(* from the cache in front of the bodies, not from the bodies.             *)
(***************************************************************************)
FirstCallReturnsMatches ==
    /\ IsCall("filter_data") /\ ~out.raised =>
         Val(out.value).rows = MatchesMain(out.data, out.categories, out.stores,
                                           out.start_date, out.end_date)
    /\ IsCall("filter_data_brand") /\ ~out.raised =>
         Val(out.value).rows = MatchesBrand(out.data, out.brands,
                                            out.start_date, out.end_date)
    /\ IsCall("filter_data_by_date") /\ ~out.raised =>
         Val(out.value).date_filtered_data.rows
            = MatchesDate(out.data, out.start_date, out.end_date)
    /\ IsRun => out.filtered_data.rows = RunMatches

SameButOrderDate(a, b) ==
    /\ Len(a.rows) = Len(b.rows)
    /\ \A i \in DOMAIN a.rows :
         [a.rows[i] EXCEPT !.orderDate = 0] = [b.rows[i] EXCEPT !.orderDate = 0]
    /\ \A i \in DOMAIN a.rows :
         a.rows[i].orderDate - Offset(a.tz) = b.rows[i].orderDate - Offset(b.tz)

BodyNormalizesIdempotently ==
    IsCall("filter_data") \/ IsCall("filter_data_brand") \/ IsCall("filter_data_by_date") =>
        /\ out.data_after.tz = "UTC"
        /\ SameButOrderDate(out.data, out.data_after)
        /\ to_datetime_column(out.data_after) = out.data_after
        /\ (out.data.tz = "UTC" => out.data_after = out.data)

====
